---- MODULE Spec2Model ----
(***************************************************************************)
(* Model of the resource store of the time tracker (src/store): a graph    *)
(* of resources indexed by type and id, loaded lazily from a JSON file     *)
(* once per process and rewritten as a whole on every save and delete.     *)
(*                                                                         *)
(* The store runs on one JavaScript event loop.  An async function runs    *)
(* until its next await; the continuation of an await on a settled promise *)
(* is a microtask, and microtasks run first-in first-out.  Callbacks of    *)
(* fs.readFile and fs.writeFile are macrotasks: they run only when no      *)
(* microtask is queued, and in any order.                                  *)
(***************************************************************************)
EXTENDS Integers, Sequences, FiniteSets, TLC

\* Number of store calls issued in one behaviour of Spec.
MaxCalls == 2

\* Number of store calls issued in one behaviour of SeqSpec.
MaxSeqCalls == 3

\* Largest id a caller passes to find, or puts on a resource it hands over.
MaxId == 1

\* Resource types used by the callers.
Types == {"tasks", "notes"}

\* A resource without a type (resource.type == null).
NoType == "null"

\* The JavaScript value undefined, for an id.
undefined == -1

\* No resource (a find call has none); resources are numbered from 1.
NoRes == 0

\* Owner of the write that loadDB issues; the calls are numbered from 1.
LoadDB == 0

\* Ids a caller may pass.
Ids == {undefined} \cup (1..MaxId)

\* Number of user events (start-stop-task, delete-task, create-task) in one
\* behaviour of TasksSpec.
MaxEvents == 3

\* The JavaScript value null, for ongoingTaskID and ongoingTaskFrom.
null == -2

\* The entry of the microtask queue that runs the watchers of the tasks
\* component; the calls are numbered from 1, and the methods of the
\* component in flight are queued under the negative of their number.
Flush == 0

VARIABLES
    promise,     \* loadGraph's cached promise: "null", "pending", "fulfilled", "rejected"
    loadPc,      \* position of loadDB: "idle", "readFile", "persist", "done", "thrown"
    loadErr,     \* reason of a rejected load promise
    graph,       \* the in-memory graph: type -> (id key -> resource reference)
    heap,        \* the resource objects: reference -> [type, id, name]
    file,        \* the data file: [exists, content]
    writes,      \* fs.writeFile calls in flight: owner -> content to be written
    calls,       \* the store calls issued so far, in order of issue
    microtasks,  \* queued continuations (call numbers), first-in first-out
    waiters,     \* calls awaiting the pending load promise, in order of arrival
    nReads,      \* number of fs.readFile calls issued
    nCreates,    \* number of writes issued by loadDB to create the file
    tasks,       \* tasks component: this.tasks, the resources it lists
    ongoingTaskID,    \* tasks component: id of the active task, or null
    ongoingTaskFrom,  \* tasks component: time the active task was activated
    watched,     \* value of ongoingTaskID its watcher has seen last
    procs,       \* methods of the tasks component invoked so far
    entries,     \* time entries pushed so far: [task, from, to], in order
    started,     \* ids ongoingTaskID was set to, in order
    now          \* the clock: (new Date()).getTime()

\* The state of the tasks component.
cvars == <<tasks, ongoingTaskID, ongoingTaskFrom, watched, procs, entries,
           started, now>>

vars == <<promise, loadPc, loadErr, graph, heap, file, writes, calls,
          microtasks, waiters, nReads, nCreates, tasks, ongoingTaskID,
          ongoingTaskFrom, watched, procs, entries, started, now>>

----------------------------------------------------------------------------
\* Values

\* The object {}.
EmptyObj == <<>>

Max(S) == CHOOSE x \in S : \A y \in S : y <= x

Min(S) == CHOOSE x \in S : \A y \in S : x <= y

RECURSIVE Ascending(_)
\* The elements of a set of numbers in ascending order: the order in which
\* Object.keys lists integer keys.
Ascending(S) == IF S = {} THEN <<>> ELSE <<Min(S)>> \o Ascending(S \ {Min(S)})

RECURSIVE SeqOf(_)
SeqOf(S) == IF S = {} THEN <<>>
            ELSE LET x == CHOOSE y \in S : TRUE IN <<x>> \o SeqOf(S \ {x})

\* JSON.stringify(payload): the references are replaced by the fields the
\* objects have at the time of the call.
Stringify(payload, h) ==
    [t \in DOMAIN payload |-> [k \in DOMAIN payload[t] |-> h[payload[t][k]]]]

\* The (type, key) pairs of a file content.
Entries(content) ==
    UNION {{<<t, k>> : k \in DOMAIN content[t]} : t \in DOMAIN content}

\* The elements of a sequence.
Range(s) == {s[i] : i \in 1..Len(s)}

\* Position of e in the sequence s.
IndexOf(s, e) == CHOOSE i \in 1..Len(s) : s[i] = e

\* JSON.parse(content): every entry becomes a new object; the result is the
\* heap with these objects appended, and the graph that refers to them.
ParseHeap(content, h) ==
    LET es == SeqOf(Entries(content))
    IN h \o [i \in 1..Len(es) |-> content[es[i][1]][es[i][2]]]

ParseGraph(content, h) ==
    LET es == SeqOf(Entries(content))
    IN [t \in DOMAIN content |->
          [k \in DOMAIN content[t] |-> Len(h) + IndexOf(es, <<t, k>>)]]

\* Results of a call.
NoVal == [kind |-> "none", ref |-> NoRes, list |-> <<>>]
UndefinedVal == [kind |-> "undefined", ref |-> NoRes, list |-> <<>>]
GraphVal == [kind |-> "graph", ref |-> NoRes, list |-> <<>>]
ResourceVal(o) == [kind |-> "resource", ref |-> o, list |-> <<>>]
ListVal(l) == [kind |-> "list", ref |-> NoRes, list |-> l]

\* A call that has just been issued.  type and id are the arguments of find,
\* or the type and id the resource of save and delete has when the call is
\* issued; gen is the id save has generated; hadType tells whether the graph
\* had an entry for the type when save came to it, and keys are the ids of
\* that entry right before save stores the resource.
NewCall(op, type, id, res) ==
    [op |-> op, type |-> type, id |-> id, res |-> res, pc |-> "load",
     gen |-> undefined, hadType |-> FALSE, keys |-> {},
     status |-> "pending", err |-> "none", val |-> NoVal]

Resolved(call, val) == [call EXCEPT !.pc = "done", !.status = "resolved", !.val = val]

Rejected(call, err) == [call EXCEPT !.pc = "done", !.status = "rejected", !.err = err]

\* The files a process may find when it starts: none (first run), or a file
\* an earlier process has written, here with tasks 1 and 2, or with task 2
\* alone (task 1 was deleted).
OldTask(k) == [type |-> "tasks", id |-> k, name |-> 10 + k]

InitFiles ==
    { [exists |-> FALSE, content |-> EmptyObj],
      [exists |-> TRUE, content |-> [t \in {"tasks"} |-> [k \in {1, 2} |-> OldTask(k)]]],
      [exists |-> TRUE, content |-> [t \in {"tasks"} |-> [k \in {2} |-> OldTask(k)]]] }

Init ==
    /\ promise = "null"
    /\ loadPc = "idle"
    /\ loadErr = "none"
    /\ graph = EmptyObj
    /\ heap = <<>>
    /\ file \in InitFiles
    /\ writes = EmptyObj
    /\ calls = <<>>
    /\ microtasks = <<>>
    /\ waiters = <<>>
    /\ nReads = 0
    /\ nCreates = 0
    /\ tasks = <<>>
    /\ ongoingTaskID = null
    /\ ongoingTaskFrom = null
    /\ watched = null
    /\ procs = <<>>
    /\ entries = <<>>
    /\ started = <<>>
    /\ now = 0

----------------------------------------------------------------------------
\* The store's functions

\* fs.readFile is issued; the promise of loadDB is pending.
loadDB ==
    /\ promise' = "pending"
    /\ loadPc' = "readFile"
    /\ nReads' = nReads + 1

\* loadGraph without its cache: every call reads the data file.
loadGraphAlways == loadDB

\* loadGraph that reads the data file again after a load that failed.
loadGraphRetries ==
    IF promise \in {"null", "rejected"}
    THEN loadDB
    ELSE UNCHANGED <<promise, loadPc, nReads>>

\* Only the first call reads the data file.
loadGraph ==
    IF promise = "null" THEN loadDB ELSE UNCHANGED <<promise, loadPc, nReads>>

\* await loadGraph() in call c: the continuation is queued at once when the
\* promise is settled, and when it settles otherwise.
Await(c) ==
    IF promise' \in {"fulfilled", "rejected"}
    THEN microtasks' = Append(microtasks, c) /\ UNCHANGED waiters
    ELSE waiters' = Append(waiters, c) /\ UNCHANGED microtasks

\* fs.writeFile(dbPath, JSON.stringify(payload)) is issued on behalf of owner.
persistGraph(owner, payload, h) ==
    writes' = (owner :> Stringify(payload, h)) @@ writes

\* generateUniqueID without the increment: the largest id is given again.
generateUniqueIDNoIncrement(g, type) ==
    IF type \notin DOMAIN g THEN 0 ELSE Max({0} \cup DOMAIN g[type])

\* The id for a new resource of a type, computed on graph g.
generateUniqueID(g, type) ==
    IF type \notin DOMAIN g THEN 0 ELSE Max({0} \cup DOMAIN g[type]) + 1

\* The resource argument of save and delete: an object the caller holds
\* already (ref), or an object literal {type, id} it creates for the call.
Resource(arg, h) ==
    IF arg.ref = NoRes THEN Len(h) + 1 ELSE arg.ref

HeapWith(arg, h) ==
    IF arg.ref = NoRes
    THEN Append(h, [type |-> arg.type, id |-> arg.id, name |-> Len(h) + 1])
    ELSE h

FreshArgs ==
    {[ref |-> NoRes, type |-> t, id |-> i] : t \in Types, i \in Ids}
        \cup {[ref |-> NoRes, type |-> NoType, id |-> undefined]}

HeldArgs == {[ref |-> o, type |-> heap[o].type, id |-> heap[o].id] : o \in DOMAIN heap}

----------------------------------------------------------------------------
\* Calls: the part of each function that runs before its first await

find(type, id) ==
    /\ calls' = Append(calls, NewCall("find", type, id, NoRes))
    /\ loadGraph
    /\ Await(Len(calls) + 1)
    /\ UNCHANGED <<loadErr, graph, heap, file, writes, nCreates>>

\* save without the test of the type: it goes on to load the graph.
saveWithoutTypeCheck(arg) ==
    LET resource == Resource(arg, heap)
        h == HeapWith(arg, heap)
        call == NewCall("save", h[resource].type, h[resource].id, resource)
    IN /\ heap' = h
       /\ calls' = Append(calls, call)
       /\ loadGraph
       /\ Await(Len(calls) + 1)
       /\ UNCHANGED <<loadErr, graph, file, writes, nCreates>>

\* save before its await: a resource without a type is rejected.
save(arg) ==
    LET resource == Resource(arg, heap)
        h == HeapWith(arg, heap)
        call == NewCall("save", h[resource].type, h[resource].id, resource)
    IN /\ heap' = h
       /\ IF h[resource].type = NoType
          THEN /\ calls' = Append(calls, Rejected(call, "resources must have a type"))
               /\ UNCHANGED <<promise, loadPc, nReads, microtasks, waiters>>
          ELSE /\ calls' = Append(calls, call)
               /\ loadGraph
               /\ Await(Len(calls) + 1)
       /\ UNCHANGED <<loadErr, graph, file, writes, nCreates>>

\* delete without the test of the id: it goes on to load the graph.
deleteWithoutIdCheck(arg) ==
    LET resource == Resource(arg, heap)
        h == HeapWith(arg, heap)
        call == NewCall("delete", h[resource].type, h[resource].id, resource)
    IN /\ heap' = h
       /\ IF h[resource].type = NoType
          THEN /\ calls' = Append(calls, Rejected(call, "resources must have a type"))
               /\ UNCHANGED <<promise, loadPc, nReads, microtasks, waiters>>
          ELSE /\ calls' = Append(calls, call)
               /\ loadGraph
               /\ Await(Len(calls) + 1)
       /\ UNCHANGED <<loadErr, graph, file, writes, nCreates>>

\* delete before its await: a resource without a type is rejected, one
\* without an id is not persisted and nothing is done.
delete(arg) ==
    LET resource == Resource(arg, heap)
        h == HeapWith(arg, heap)
        call == NewCall("delete", h[resource].type, h[resource].id, resource)
    IN /\ heap' = h
       /\ IF h[resource].type = NoType
          THEN /\ calls' = Append(calls, Rejected(call, "resources must have a type"))
               /\ UNCHANGED <<promise, loadPc, nReads, microtasks, waiters>>
          ELSE IF h[resource].id = undefined
          THEN /\ calls' = Append(calls, Resolved(call, UndefinedVal))
               /\ UNCHANGED <<promise, loadPc, nReads, microtasks, waiters>>
          ELSE /\ calls' = Append(calls, call)
               /\ loadGraph
               /\ Await(Len(calls) + 1)
       /\ UNCHANGED <<loadErr, graph, file, writes, nCreates>>

----------------------------------------------------------------------------
\* Microtasks: the continuation of call c after an await

Runs(c, op, pc) ==
    /\ microtasks # <<>>
    /\ c = Head(microtasks)
    /\ calls[c].op = op
    /\ calls[c].pc = pc

\* await loadGraph() throws in find, save or delete: the load was rejected.
awaitRejected(c) ==
    /\ microtasks # <<>>
    /\ c = Head(microtasks)
    /\ calls[c].pc = "load"
    /\ promise = "rejected"
    /\ calls' = [calls EXCEPT ![c] = Rejected(@, loadErr)]
    /\ microtasks' = Tail(microtasks)
    /\ UNCHANGED <<promise, loadPc, loadErr, graph, heap, file, writes, waiters,
                   nReads, nCreates>>

\* The graph with an entry for the type.
withType(g, type) ==
    IF type \notin DOMAIN g THEN (type :> EmptyObj) @@ g ELSE g

\* find without its id parameter: it lists the type's resources.
findResultListOnly(g, type, id) ==
    LET ks == Ascending(DOMAIN g[type])
    IN ListVal([i \in 1..Len(ks) |-> g[type][ks[i]]])

\* The value find returns.
findResult(g, type, id) ==
    IF id # undefined
    THEN IF id \in DOMAIN g[type] THEN ResourceVal(g[type][id]) ELSE UndefinedVal
    ELSE LET ks == Ascending(DOMAIN g[type])
         IN ListVal([i \in 1..Len(ks) |-> g[type][ks[i]]])

\* find without the test of the type: an unknown type has no resources.
findResumeWithoutTypeCheck(c) ==
    /\ Runs(c, "find", "load")
    /\ promise = "fulfilled"
    /\ calls' = [calls EXCEPT ![c] =
                    Resolved(@, findResult(withType(graph, calls[c].type),
                                           calls[c].type, calls[c].id))]
    /\ microtasks' = Tail(microtasks)
    /\ UNCHANGED <<promise, loadPc, loadErr, graph, heap, file, writes, waiters,
                   nReads, nCreates>>

\* find after await loadGraph(): an unknown type is an error.
findResume(c) ==
    /\ Runs(c, "find", "load")
    /\ promise = "fulfilled"
    /\ calls' = [calls EXCEPT ![c] =
                    IF calls[c].type \notin DOMAIN graph
                    THEN Rejected(@, "unrecognized type")
                    ELSE Resolved(@, findResult(graph, calls[c].type, calls[c].id))]
    /\ microtasks' = Tail(microtasks)
    /\ UNCHANGED <<promise, loadPc, loadErr, graph, heap, file, writes, waiters,
                   nReads, nCreates>>

\* The graph with the resource stored under the id.
withResource(g, type, id, resource) ==
    [g EXCEPT ![type] = (id :> resource) @@ @]

\* save that takes every resource for a new one.
isNewAlways(g, type, id) == TRUE

\* save that generates an id only for a resource without one.
isNewWithoutId(g, type, id) == id = undefined

\* Whether save generates an id for the resource.
isNew(g, type, id) ==
    id = undefined \/ id \notin DOMAIN g[type]

\* The end of save: the resource takes the id, enters graph g under it, and
\* the graph is written.
saveStore(c, g, resourceID) ==
    LET resource == calls[c].res
        type == heap[resource].type
        h == [heap EXCEPT ![resource].id = resourceID]
    IN /\ heap' = h
       /\ graph' = withResource(g, type, resourceID, resource)
       /\ persistGraph(c, graph', h)
       /\ calls' = [calls EXCEPT ![c].pc = "persist", ![c].keys = DOMAIN g[type]]
       /\ microtasks' = Tail(microtasks)

\* save after await loadGraph(): the entry for the type is created; a new
\* resource awaits generateUniqueID, a known one is stored at once.
saveResume(c) ==
    /\ Runs(c, "save", "load")
    /\ promise = "fulfilled"
    /\ LET resource == calls[c].res
           type == heap[resource].type
           g == withType(graph, type)
       IN IF isNew(g, type, heap[resource].id)
          THEN /\ graph' = g
               /\ calls' = [calls EXCEPT ![c].pc = "genLoad",
                                         ![c].hadType = type \in DOMAIN graph]
               /\ microtasks' = Append(Tail(microtasks), c)
               /\ UNCHANGED <<heap, writes>>
          ELSE saveStore(c, g, heap[resource].id)
    /\ UNCHANGED <<promise, loadPc, loadErr, file, waiters, nReads, nCreates>>

\* generateUniqueID after its await loadGraph(): the id is computed on the
\* graph as it is now, and handed to the awaiting save.
generateUniqueIDResume(c) ==
    /\ Runs(c, "save", "genLoad")
    /\ calls' = [calls EXCEPT ![c].pc = "genRet",
                              ![c].gen = generateUniqueID(graph, heap[calls[c].res].type)]
    /\ microtasks' = Append(Tail(microtasks), c)
    /\ UNCHANGED <<promise, loadPc, loadErr, graph, heap, file, writes, waiters,
                   nReads, nCreates>>

\* save after await generateUniqueID(): the resource is stored under the id.
saveAssign(c) ==
    /\ Runs(c, "save", "genRet")
    /\ saveStore(c, graph, calls[c].gen)
    /\ UNCHANGED <<promise, loadPc, loadErr, file, waiters, nReads, nCreates>>

\* delete that removes the whole entry of the type.
withoutResourceWholeType(g, type, id) ==
    [t \in (DOMAIN g) \ {type} |-> g[t]]

\* The graph without the entry at the id.
withoutResource(g, type, id) ==
    [g EXCEPT ![type] = [k \in (DOMAIN @) \ {id} |-> @[k]]]

deleteResume(c) ==
    /\ Runs(c, "delete", "load")
    /\ promise = "fulfilled"
    /\ LET resource == calls[c].res
           type == heap[resource].type
       IN IF type \notin DOMAIN graph
          THEN /\ calls' = [calls EXCEPT ![c] = Resolved(@, UndefinedVal)]
               /\ UNCHANGED <<graph, writes>>
          ELSE /\ graph' = withoutResource(graph, type, heap[resource].id)
               /\ persistGraph(c, graph', heap)
               /\ calls' = [calls EXCEPT ![c].pc = "persist"]
    /\ microtasks' = Tail(microtasks)
    /\ UNCHANGED <<promise, loadPc, loadErr, heap, file, waiters, nReads, nCreates>>

----------------------------------------------------------------------------
\* Macrotasks: the callbacks of fs.readFile and fs.writeFile

\* The load promise settles: the calls awaiting it continue in order.
Settle(state, err) ==
    /\ promise' = state
    /\ loadErr' = err
    /\ loadPc' = "done"
    /\ microtasks' = waiters
    /\ waiters' = <<>>

ReadErrors == {"none", "ENOENT", "EIO"}

WriteErrors == {"none", "EIO"}

\* The callback of fs.readFile without the test of err.code: every error of
\* the read rejects the load.
readFileDoneAnyErrorRejects(err) ==
    /\ microtasks = <<>>
    /\ loadPc = "readFile"
    /\ err = "none" => file.exists
    /\ err = "ENOENT" => ~file.exists
    /\ IF err # "none"
       THEN /\ Settle("rejected", err)
            /\ UNCHANGED <<graph, heap, writes, nCreates>>
       ELSE /\ graph' = ParseGraph(file.content, heap)
            /\ heap' = ParseHeap(file.content, heap)
            /\ Settle("fulfilled", "none")
            /\ UNCHANGED <<writes, nCreates>>
    /\ UNCHANGED <<file, calls, nReads>>

\* The callback of fs.readFile in loadDB.
readFileDone(err) ==
    /\ microtasks = <<>>
    /\ loadPc = "readFile"
    /\ err = "none" => file.exists
    /\ err = "ENOENT" => ~file.exists
    /\ IF err \notin {"none", "ENOENT"}
       THEN /\ Settle("rejected", err)
            /\ UNCHANGED <<graph, heap, writes, nCreates>>
       ELSE IF err = "ENOENT"
       THEN /\ persistGraph(LoadDB, EmptyObj, heap)
            /\ nCreates' = nCreates + 1
            /\ loadPc' = "persist"
            /\ UNCHANGED <<promise, loadErr, graph, heap, microtasks, waiters>>
       ELSE /\ graph' = ParseGraph(file.content, heap)
            /\ heap' = ParseHeap(file.content, heap)
            /\ Settle("fulfilled", "none")
            /\ UNCHANGED <<writes, nCreates>>
    /\ UNCHANGED <<file, calls, nReads>>

\* The writes left when the one of owner is over.
Without(w, owner) == [o \in (DOMAIN w) \ {owner} |-> w[o]]

\* The callback of fs.writeFile that, when the write of a call has failed,
\* takes the graph back from the data file.
writeFileDoneRollsBack(owner, err) ==
    /\ microtasks = <<>>
    /\ owner \in DOMAIN writes
    /\ writes' = Without(writes, owner)
    /\ file' = IF err = "none" THEN [exists |-> TRUE, content |-> writes[owner]]
               ELSE file
    /\ IF owner = LoadDB
       THEN /\ IF err = "none"
               THEN Settle("fulfilled", "none")
               ELSE /\ loadPc' = "thrown"
                    /\ UNCHANGED <<promise, loadErr, microtasks, waiters>>
            /\ UNCHANGED <<calls, graph, heap>>
       ELSE /\ calls' = [calls EXCEPT ![owner] =
                            IF err = "none" THEN Resolved(@, GraphVal)
                            ELSE Rejected(@, err)]
            /\ IF err = "none"
               THEN UNCHANGED <<graph, heap>>
               ELSE /\ graph' = ParseGraph(file.content, heap)
                    /\ heap' = ParseHeap(file.content, heap)
            /\ UNCHANGED <<promise, loadErr, loadPc, microtasks, waiters>>
    /\ UNCHANGED <<nReads, nCreates>>

\* The callback of fs.writeFile in persistGraph: the file holds the content
\* that was handed to this write, or the write has failed and the file is as
\* it was.  Writes in flight together are not ordered: each is an open, a
\* write and a close on the thread pool, and any of them may be the last to
\* reach the file.  The write of loadDB settles the load, and nothing does
\* when it fails: the async callback of readFile throws at its await, and
\* neither resolve nor reject of the load promise is called.
writeFileDone(owner, err) ==
    /\ microtasks = <<>>
    /\ owner \in DOMAIN writes
    /\ writes' = Without(writes, owner)
    /\ file' = IF err = "none" THEN [exists |-> TRUE, content |-> writes[owner]]
               ELSE file
    /\ IF owner = LoadDB
       THEN /\ IF err = "none"
               THEN Settle("fulfilled", "none")
               ELSE /\ loadPc' = "thrown"
                    /\ UNCHANGED <<promise, loadErr, microtasks, waiters>>
            /\ UNCHANGED calls
       ELSE /\ calls' = [calls EXCEPT ![owner] =
                            IF err = "none" THEN Resolved(@, GraphVal)
                            ELSE Rejected(@, err)]
            /\ UNCHANGED <<promise, loadErr, loadPc, microtasks, waiters>>
    /\ UNCHANGED <<graph, heap, nReads, nCreates>>

----------------------------------------------------------------------------
\* The tasks component
\*
\* A method of the component that awaits a call of the store continues in a
\* microtask that is queued when the call settles.  A step of the component
\* that the model takes in several actions (Notify after the step that
\* settles a call; saveOngoingTask and setOngoingTaskID after the step that
\* pushes the time entry; deleteFound after the step that looks the task up
\* in this.tasks) is over before anything else runs.

\* Every method of the component invoked so far is over.
MethodsOver == \A p \in DOMAIN procs : procs[p].pc \in {"done", "thrown"}

\* A method that has just been invoked: op is the method, id its argument,
\* call the call of the store it awaits, seen the value of ongoingTaskID it
\* has read, res the resource it has at hand, and position the index
\* deleteTask has found for it in this.tasks (from 1; 0 when it has none).
\* alone records that the method was invoked as an event of its own: no
\* other method was in flight and no microtask was queued.
NewProc(op, id, call, pc) ==
    [op |-> op, id |-> id, call |-> call, pc |-> pc, seen |-> ongoingTaskID,
     res |-> NoRes, position |-> 0, alone |-> MethodsOver /\ microtasks = <<>>]

\* The number of the method that runs when m is at the head of the queue.
ProcOf(m) == 0 - m

\* A call has settled and the method awaiting it is not queued yet.
Settling ==
    \E p \in DOMAIN procs :
        procs[p].pc = "await" /\ calls[procs[p].call].pc = "done"

\* A method is between two actions of one step.
InStep == \E p \in DOMAIN procs : procs[p].pc \in {"save", "set", "delete"}

\* The component or the queue is in the middle of a step.
Busy == Settling \/ InStep

\* The continuation of method p is queued: the call it awaits has settled.
Notify(p) ==
    /\ procs[p].pc = "await"
    /\ calls[procs[p].call].pc = "done"
    /\ procs' = [procs EXCEPT ![p].pc = "queued"]
    /\ microtasks' = Append(microtasks, 0 - p)
    /\ UNCHANGED <<promise, loadPc, loadErr, graph, heap, file, writes, calls,
                   waiters, nReads, nCreates>>
    /\ UNCHANGED <<tasks, ongoingTaskID, ongoingTaskFrom, watched, entries,
                   started, now>>

\* Method p runs: it is at the head of the microtask queue.
Continues(p, op) ==
    /\ microtasks # <<>>
    /\ Head(microtasks) < 0
    /\ p = ProcOf(Head(microtasks))
    /\ procs[p].op = op
    /\ procs[p].pc = "queued"

\* data(): the component asks the store for the tasks when it is created.
data ==
    /\ procs = <<>>
    /\ find("tasks", undefined)
    /\ procs' = Append(procs, NewProc("data", undefined, Len(calls) + 1, "await"))
    /\ UNCHANGED <<tasks, ongoingTaskID, ongoingTaskFrom, watched, entries,
                   started, now>>

\* The callback of data(): this.tasks = tasks.  When find is rejected there
\* is no callback for it, and this.tasks stays empty.
dataThen(p) ==
    /\ Continues(p, "data")
    /\ microtasks' = Tail(microtasks)
    /\ IF calls[procs[p].call].status = "resolved"
       THEN /\ tasks' = calls[procs[p].call].val.list
            /\ procs' = [procs EXCEPT ![p].pc = "done"]
       ELSE /\ procs' = [procs EXCEPT ![p].pc = "thrown"]
            /\ UNCHANGED tasks
    /\ UNCHANGED <<promise, loadPc, loadErr, graph, heap, file, writes, calls,
                   waiters, nReads, nCreates>>
    /\ UNCHANGED <<ongoingTaskID, ongoingTaskFrom, watched, entries, started, now>>

\* The queue with the run of the watchers in it: Vue queues it when a
\* watched value changes and it is not queued yet.
QueueFlush(q) == IF Flush \in Range(q) THEN q ELSE Append(q, Flush)

\* The watchers run: the watcher of ongoingTaskID stores the time when the
\* value is not the one it has seen last.
flushWatchers ==
    /\ microtasks # <<>>
    /\ Head(microtasks) = Flush
    /\ microtasks' = Tail(microtasks)
    /\ IF ongoingTaskID # watched
       THEN /\ ongoingTaskFrom' = IF ongoingTaskID = null THEN null ELSE now
            /\ watched' = ongoingTaskID
       ELSE UNCHANGED <<ongoingTaskFrom, watched>>
    /\ UNCHANGED <<promise, loadPc, loadErr, graph, heap, file, writes, calls,
                   waiters, nReads, nCreates>>
    /\ UNCHANGED <<tasks, ongoingTaskID, procs, entries, started, now>>

\* startStopTask(id) up to its await: with an active task it asks the store
\* for it, with none it activates the task of the event at once.
startStopTask(id) ==
    /\ now' = now + 1
    /\ IF ongoingTaskID # null
       THEN /\ find("tasks", ongoingTaskID)
            /\ procs' = Append(procs, NewProc("startStopTask", id,
                                              Len(calls) + 1, "await"))
            /\ UNCHANGED <<tasks, ongoingTaskID, ongoingTaskFrom, watched,
                           entries, started>>
       ELSE /\ ongoingTaskID' = id
            /\ started' = Append(started, id)
            /\ microtasks' = QueueFlush(microtasks)
            /\ procs' = Append(procs, NewProc("startStopTask", id, 0, "done"))
            /\ UNCHANGED <<promise, loadPc, loadErr, graph, heap, file, writes,
                           calls, waiters, nReads, nCreates>>
            /\ UNCHANGED <<tasks, ongoingTaskFrom, watched, entries>>

\* startStopTask after its await: the time entry is pushed to the task the
\* store has returned.  It throws when find was rejected, and when find has
\* returned undefined and the entries are read.
pushEntry(p) ==
    /\ Continues(p, "startStopTask")
    /\ microtasks' = Tail(microtasks)
    /\ LET call == calls[procs[p].call]
       IN IF call.status = "resolved" /\ call.val.kind = "resource"
          THEN /\ entries' = Append(entries, [task |-> call.val.ref,
                                              from |-> ongoingTaskFrom,
                                              to |-> now])
               /\ procs' = [procs EXCEPT ![p].pc = "save",
                                         ![p].res = call.val.ref]
          ELSE /\ procs' = [procs EXCEPT ![p].pc = "thrown"]
               /\ UNCHANGED entries
    /\ UNCHANGED <<promise, loadPc, loadErr, graph, heap, file, writes, calls,
                   waiters, nReads, nCreates>>
    /\ UNCHANGED <<tasks, ongoingTaskID, ongoingTaskFrom, watched, started, now>>

\* store.save(ongoingTask), which startStopTask does not await.
saveOngoingTask(p) ==
    /\ procs[p].pc = "save"
    /\ save([ref |-> procs[p].res, type |-> heap[procs[p].res].type,
             id |-> heap[procs[p].res].id])
    /\ procs' = [procs EXCEPT ![p].pc = "set"]
    /\ UNCHANGED <<tasks, ongoingTaskID, ongoingTaskFrom, watched, entries,
                   started, now>>

\* The last statement of startStopTask:
\* this.ongoingTaskID = (this.ongoingTaskID === id) ? null : id
setOngoingTaskID(p) ==
    /\ procs[p].pc = "set"
    /\ ongoingTaskID' = IF ongoingTaskID = procs[p].id THEN null ELSE procs[p].id
    /\ started' = IF ongoingTaskID' # null THEN Append(started, ongoingTaskID')
                  ELSE started
    /\ microtasks' = QueueFlush(microtasks)
    /\ procs' = [procs EXCEPT ![p].pc = "done"]
    /\ UNCHANGED <<promise, loadPc, loadErr, graph, heap, file, writes, calls,
                   waiters, nReads, nCreates>>
    /\ UNCHANGED <<tasks, ongoingTaskFrom, watched, entries, now>>

\* createTask(name) up to its await: a new task resource is saved.
createTask ==
    /\ save([ref |-> NoRes, type |-> "tasks", id |-> undefined])
    /\ procs' = Append(procs, [NewProc("createTask", undefined, Len(calls) + 1,
                                       "await") EXCEPT !.res = Len(heap) + 1])
    /\ UNCHANGED <<tasks, ongoingTaskID, ongoingTaskFrom, watched, entries,
                   started, now>>

\* createTask after its await: this.tasks.push(task).  It throws when save
\* was rejected.
createTaskThen(p) ==
    /\ Continues(p, "createTask")
    /\ microtasks' = Tail(microtasks)
    /\ IF calls[procs[p].call].status = "resolved"
       THEN /\ tasks' = Append(tasks, procs[p].res)
            /\ procs' = [procs EXCEPT ![p].pc = "done"]
       ELSE /\ procs' = [procs EXCEPT ![p].pc = "thrown"]
            /\ UNCHANGED tasks
    /\ UNCHANGED <<promise, loadPc, loadErr, graph, heap, file, writes, calls,
                   waiters, nReads, nCreates>>
    /\ UNCHANGED <<ongoingTaskID, ongoingTaskFrom, watched, entries, started, now>>

\* deleteTask(id) up to its first await: it asks the store for the task.
deleteTask(id) ==
    /\ find("tasks", id)
    /\ procs' = Append(procs, NewProc("deleteTask", id, Len(calls) + 1, "await"))
    /\ UNCHANGED <<tasks, ongoingTaskID, ongoingTaskFrom, watched, entries,
                   started, now>>

\* this.tasks.indexOf(task), counted from 1: 0 when the task is not listed,
\* which is the case of undefined.
indexOf(list, val) ==
    IF val.kind = "resource" /\ val.ref \in Range(list)
    THEN Min({i \in 1..Len(list) : list[i] = val.ref})
    ELSE 0

\* deleteTask after await store.find: it looks the task up in this.tasks and
\* returns when it is not there.  It throws when find was rejected.
indexOfTask(p) ==
    /\ Continues(p, "deleteTask")
    /\ procs[p].res = NoRes
    /\ microtasks' = Tail(microtasks)
    /\ LET call == calls[procs[p].call]
       IN IF call.status # "resolved"
          THEN procs' = [procs EXCEPT ![p].pc = "thrown"]
          ELSE IF indexOf(tasks, call.val) = 0
          THEN procs' = [procs EXCEPT ![p].pc = "done"]
          ELSE procs' = [procs EXCEPT ![p].pc = "delete",
                                      ![p].res = call.val.ref,
                                      ![p].position = indexOf(tasks, call.val)]
    /\ UNCHANGED <<promise, loadPc, loadErr, graph, heap, file, writes, calls,
                   waiters, nReads, nCreates>>
    /\ UNCHANGED <<tasks, ongoingTaskID, ongoingTaskFrom, watched, entries,
                   started, now>>

\* await store.delete(task) of deleteTask.
deleteFound(p) ==
    /\ procs[p].pc = "delete"
    /\ delete([ref |-> procs[p].res, type |-> heap[procs[p].res].type,
               id |-> heap[procs[p].res].id])
    /\ procs' = [procs EXCEPT ![p].pc = "await", ![p].call = Len(calls) + 1]
    /\ UNCHANGED <<tasks, ongoingTaskID, ongoingTaskFrom, watched, entries,
                   started, now>>

\* The list without the element at the position, or the list itself when it
\* has no such position: list.splice(position - 1, 1).
splice(list, position) ==
    [i \in 1..(Len(list) - (IF position <= Len(list) THEN 1 ELSE 0)) |->
        IF i < position THEN list[i] ELSE list[i + 1]]

\* deleteTask after await store.delete: the element at the position found
\* before the await leaves this.tasks.  It throws when delete was rejected.
deleteTaskThen(p) ==
    /\ Continues(p, "deleteTask")
    /\ procs[p].res # NoRes
    /\ microtasks' = Tail(microtasks)
    /\ IF calls[procs[p].call].status = "resolved"
       THEN /\ tasks' = splice(tasks, procs[p].position)
            /\ procs' = [procs EXCEPT ![p].pc = "done"]
       ELSE /\ procs' = [procs EXCEPT ![p].pc = "thrown"]
            /\ UNCHANGED tasks
    /\ UNCHANGED <<promise, loadPc, loadErr, graph, heap, file, writes, calls,
                   waiters, nReads, nCreates>>
    /\ UNCHANGED <<ongoingTaskID, ongoingTaskFrom, watched, entries, started, now>>

----------------------------------------------------------------------------
\* Specifications

Pending(c) == calls[c].status = "pending"

AllSettled == \A c \in DOMAIN calls : ~Pending(c)

\* Calls are issued at any time, also while others are in flight.
Next ==
    \/ /\ Len(calls) < MaxCalls /\ \E type \in Types, id \in Ids : find(type, id)
       /\ UNCHANGED cvars
    \/ /\ Len(calls) < MaxCalls /\ \E arg \in FreshArgs \cup HeldArgs : save(arg)
       /\ UNCHANGED cvars
    \/ /\ Len(calls) < MaxCalls /\ \E arg \in FreshArgs \cup HeldArgs : delete(arg)
       /\ UNCHANGED cvars
    \/ /\ \E c \in DOMAIN calls : awaitRejected(c)
       /\ UNCHANGED cvars
    \/ /\ \E c \in DOMAIN calls : findResume(c)
       /\ UNCHANGED cvars
    \/ /\ \E c \in DOMAIN calls : saveResume(c)
       /\ UNCHANGED cvars
    \/ /\ \E c \in DOMAIN calls : generateUniqueIDResume(c)
       /\ UNCHANGED cvars
    \/ /\ \E c \in DOMAIN calls : saveAssign(c)
       /\ UNCHANGED cvars
    \/ /\ \E c \in DOMAIN calls : deleteResume(c)
       /\ UNCHANGED cvars
    \/ /\ \E err \in ReadErrors : readFileDone(err)
       /\ UNCHANGED cvars
    \/ /\ \E owner \in DOMAIN writes, err \in WriteErrors : writeFileDone(owner, err)
       /\ UNCHANGED cvars

Spec == Init /\ [][Next]_vars

\* Calls are issued one at a time: each when the ones before it are settled.
SeqNext ==
    \/ /\ Len(calls) < MaxSeqCalls
       /\ AllSettled
       /\ \E type \in Types, id \in Ids : find(type, id)
       /\ UNCHANGED cvars
    \/ /\ Len(calls) < MaxSeqCalls
       /\ AllSettled
       /\ \E arg \in FreshArgs \cup HeldArgs : save(arg)
       /\ UNCHANGED cvars
    \/ /\ Len(calls) < MaxSeqCalls
       /\ AllSettled
       /\ \E arg \in FreshArgs \cup HeldArgs : delete(arg)
       /\ UNCHANGED cvars
    \/ /\ \E c \in DOMAIN calls : awaitRejected(c)
       /\ UNCHANGED cvars
    \/ /\ \E c \in DOMAIN calls : findResume(c)
       /\ UNCHANGED cvars
    \/ /\ \E c \in DOMAIN calls : saveResume(c)
       /\ UNCHANGED cvars
    \/ /\ \E c \in DOMAIN calls : generateUniqueIDResume(c)
       /\ UNCHANGED cvars
    \/ /\ \E c \in DOMAIN calls : saveAssign(c)
       /\ UNCHANGED cvars
    \/ /\ \E c \in DOMAIN calls : deleteResume(c)
       /\ UNCHANGED cvars
    \/ /\ \E err \in ReadErrors : readFileDone(err)
       /\ UNCHANGED cvars
    \/ /\ \E owner \in DOMAIN writes, err \in WriteErrors : writeFileDone(owner, err)
       /\ UNCHANGED cvars

SeqSpec == Init /\ [][SeqNext]_vars

\* The component is created and has not used up its events.
AcceptsEvent == 1 <= Len(procs) /\ Len(procs) <= MaxEvents

\* The tasks component on the store: the user starts, stops and deletes the
\* tasks the component lists and creates tasks, and no other caller uses the
\* store.
TasksNext ==
    \/ ~Busy /\ data
    \/ /\ ~Busy
       /\ AcceptsEvent
       /\ \E o \in Range(tasks) : startStopTask(heap[o].id)
    \/ ~Busy /\ AcceptsEvent /\ createTask
    \/ /\ ~Busy
       /\ AcceptsEvent
       /\ \E o \in Range(tasks) : deleteTask(heap[o].id)
    \/ \E p \in DOMAIN procs : Notify(p)
    \/ ~Busy /\ \E p \in DOMAIN procs : dataThen(p)
    \/ ~Busy /\ \E p \in DOMAIN procs : pushEntry(p)
    \/ ~Settling /\ \E p \in DOMAIN procs : saveOngoingTask(p)
    \/ ~Settling /\ \E p \in DOMAIN procs : setOngoingTaskID(p)
    \/ ~Busy /\ \E p \in DOMAIN procs : createTaskThen(p)
    \/ ~Busy /\ \E p \in DOMAIN procs : indexOfTask(p)
    \/ ~Settling /\ \E p \in DOMAIN procs : deleteFound(p)
    \/ ~Busy /\ \E p \in DOMAIN procs : deleteTaskThen(p)
    \/ ~Busy /\ flushWatchers
    \/ /\ ~Busy
       /\ \E c \in DOMAIN calls : awaitRejected(c)
       /\ UNCHANGED cvars
    \/ /\ ~Busy
       /\ \E c \in DOMAIN calls : findResume(c)
       /\ UNCHANGED cvars
    \/ /\ ~Busy
       /\ \E c \in DOMAIN calls : saveResume(c)
       /\ UNCHANGED cvars
    \/ /\ ~Busy
       /\ \E c \in DOMAIN calls : generateUniqueIDResume(c)
       /\ UNCHANGED cvars
    \/ /\ ~Busy
       /\ \E c \in DOMAIN calls : saveAssign(c)
       /\ UNCHANGED cvars
    \/ /\ ~Busy
       /\ \E c \in DOMAIN calls : deleteResume(c)
       /\ UNCHANGED cvars
    \/ /\ ~Busy
       /\ \E err \in ReadErrors : readFileDone(err)
       /\ UNCHANGED cvars
    \/ /\ ~Busy
       /\ \E owner \in DOMAIN writes, err \in WriteErrors : writeFileDone(owner, err)
       /\ UNCHANGED cvars

TasksSpec == Init /\ [][TasksNext]_vars

----------------------------------------------------------------------------
\* Properties

\* A save call that has stored its resource under an id it has generated.
SavedNew(c) ==
    /\ calls[c].op = "save"
    /\ calls[c].gen # undefined
    /\ calls[c].pc \in {"persist", "done"}

\* C1: under calls issued one at a time, a resource without an id whose type
\* has no entry in the graph yet is given id 0, and a resource without an id
\* whose type has an entry is given the largest id of that entry plus one.
C1_FirstIdZeroThenMaxPlusOne ==
    \A c \in DOMAIN calls :
        SavedNew(c) /\ calls[c].id = undefined =>
            /\ ~calls[c].hadType => calls[c].gen = 0
            /\ calls[c].hadType => calls[c].gen = Max({0} \cup calls[c].keys) + 1

\* C2: when two save calls of two distinct resources without an id and of the
\* same type have both resolved, and no other save or delete was issued, the
\* two resources have different ids and both are in the graph under their id.
C2_ConcurrentSavesDistinctIds ==
    \A c1, c2 \in DOMAIN calls :
        /\ c1 < c2
        /\ \A c \in DOMAIN calls : c \notin {c1, c2} => calls[c].op = "find"
        /\ \A c \in {c1, c2} : /\ calls[c].op = "save"
                               /\ calls[c].id = undefined
                               /\ calls[c].status = "resolved"
        /\ calls[c1].res # calls[c2].res
        /\ calls[c1].type = calls[c2].type
        => /\ heap[calls[c1].res].id # heap[calls[c2].res].id
           /\ \A c \in {c1, c2} :
                 /\ heap[calls[c].res].id \in DOMAIN graph[calls[c].type]
                 /\ graph[calls[c].type][heap[calls[c].res].id] = calls[c].res

\* The load states in their order: Unloaded, Loading, and the settled ones.
LoadRank(p) == IF p = "null" THEN 0 ELSE IF p = "pending" THEN 1 ELSE 2

\* C3: the data file is read at most once and the write that creates it is
\* issued at most once; the load state moves from Unloaded to Loading and
\* from Loading to a settled state, and never back or on from a settled one.
C3_LoadOnce ==
    [][/\ nReads' <= 1
       /\ nCreates' <= 1
       /\ promise' # promise =>
             /\ LoadRank(promise') = LoadRank(promise) + 1
             /\ promise = "null" => nReads' = 1]_vars

\* Two calls were awaiting the one load, which has created the file.
C3_Witness ==
    /\ promise = "fulfilled"
    /\ nReads = 1
    /\ nCreates = 1
    /\ Len(microtasks) >= 2

\* Call c resolves in this step when its write completes.
ResolvesByWrite(c) ==
    /\ calls[c].op \in {"save", "delete"}
    /\ calls[c].pc = "persist"
    /\ calls'[c].status = "resolved"

\* C4: when the write of a save or delete call completes and the call
\* resolves, and no other write is pending, the data file holds the
\* in-memory graph.
C4_FileEqualsGraph ==
    [][\A c \in DOMAIN calls :
          ResolvesByWrite(c) /\ writes' = EmptyObj =>
              /\ file'.exists
              /\ file'.content = Stringify(graph', heap')]_vars

\* No disk operation is in flight and no continuation is queued.
Quiescent ==
    /\ microtasks = <<>>
    /\ writes = EmptyObj
    /\ loadPc # "readFile"

\* Call c has awaited the load.
AwaitedLoad(c) ==
    /\ calls[c].pc = "done"
    /\ \/ calls[c].op = "find"
       \/ calls[c].op = "save" /\ calls[c].type # NoType
       \/ calls[c].op = "delete" /\ calls[c].type # NoType /\ calls[c].id # undefined

\* C5: once the disk has answered every operation and no continuation is
\* left to run, no call is pending; and the calls that have awaited a load
\* that failed are rejected with the error of the load.
C5_DiskFailuresReject ==
    /\ Quiescent => AllSettled
    /\ promise = "rejected" =>
          \A c \in DOMAIN calls :
              AwaitedLoad(c) => calls[c].status = "rejected" /\ calls[c].err = loadErr

\* Call c is a save that has stored a resource of the type that came
\* without an id.
SavedNewOf(c, type) ==
    /\ c \in DOMAIN calls
    /\ SavedNew(c)
    /\ calls[c].type = type
    /\ calls[c].id = undefined

\* The scenario of C6 on the first four calls: two resources of a type that
\* has no entry yet are saved, the first is deleted, a third is saved.
C6_Scenario(type) ==
    /\ SavedNewOf(1, type) /\ ~calls[1].hadType => calls[1].gen = 0
    /\ SavedNewOf(1, type) /\ ~calls[1].hadType /\ SavedNewOf(2, type) =>
          calls[2].gen = 1
    /\ /\ SavedNewOf(1, type) /\ ~calls[1].hadType /\ SavedNewOf(2, type)
       /\ SavedNewOf(4, type)
       /\ calls[3].op = "delete" /\ calls[3].res = calls[1].res
       /\ calls[3].status = "resolved"
       => /\ calls[4].gen = 2
          /\ calls[4].status = "resolved" /\ Len(calls) = 4 =>
                DOMAIN graph[type] = {1, 2}

\* C6 (first part): under calls issued one at a time, the id generated for a
\* resource is greater than every id its type's entry holds when the
\* resource is stored.
C6_AssignedAboveLive ==
    \A c \in DOMAIN calls :
        SavedNew(c) => \A k \in calls[c].keys : calls[c].gen > k

\* C6: under calls issued one at a time, a generated id is greater than every
\* id of the type at that moment, and in the scenario the ids given are 0,
\* 1 and, after id 0 was deleted, 2, and the type then holds ids 1 and 2.
C6_NoReuseBelowMax ==
    /\ C6_AssignedAboveLive
    /\ \A type \in Types : C6_Scenario(type)

\* Call c is a save that has awaited the load and, in this step, finds the
\* id of its resource among the keys of the resource's type.
SavesKnownId(c) ==
    /\ calls[c].op = "save"
    /\ calls[c].pc = "load"
    /\ calls'[c].pc # "load"
    /\ promise = "fulfilled"
    /\ heap[calls[c].res].type \in DOMAIN graph
    /\ heap[calls[c].res].id \in DOMAIN graph[heap[calls[c].res].type]

\* C7: a save of a resource whose id is a key of its type's entry stores the
\* resource under that id at once: no resource changes (so the resource
\* keeps its id), no entry gets or loses a key, and every other key of
\* every entry refers to the resource it referred to.
C7_UpdateInPlace ==
    [][\A c \in DOMAIN calls :
          SavesKnownId(c) =>
              LET resource == calls[c].res
                  type == heap[resource].type
                  id == heap[resource].id
              IN /\ calls'[c].pc = "persist"
                 /\ heap' = heap
                 /\ DOMAIN graph' = DOMAIN graph
                 /\ \A t \in DOMAIN graph : DOMAIN graph'[t] = DOMAIN graph[t]
                 /\ graph'[type][id] = resource
                 /\ \A t \in DOMAIN graph : \A k \in DOMAIN graph[t] :
                       <<t, k>> # <<type, id>> => graph'[t][k] = graph[t][k]]_vars

\* A save has replaced, under a known id, another resource that has this id,
\* in a graph that holds a second resource.
C7_Witness ==
    \E c \in DOMAIN calls :
        /\ calls[c].op = "save"
        /\ calls[c].gen = undefined
        /\ calls[c].pc \in {"persist", "done"}
        /\ Cardinality(calls[c].keys) >= 2
        /\ \E o \in DOMAIN heap :
              /\ o # calls[c].res
              /\ heap[o].type = calls[c].type
              /\ heap[o].id = calls[c].id

\* The save calls of a type issued before call k.
SavesBefore(k, type) ==
    {c \in 1..(k - 1) : calls[c].op = "save" /\ calls[c].type = type}

\* Call k is a find that has resolved after a run of saves of new resources
\* of its type alone: the first found the type's entry empty or missing,
\* all have resolved, and no delete was issued before the find.
FindsAfterSaves(k) ==
    /\ calls[k].op = "find"
    /\ calls[k].pc = "done"
    /\ SavesBefore(k, calls[k].type) # {}
    /\ \A c \in 1..(k - 1) : calls[c].op # "delete"
    /\ \A c \in SavesBefore(k, calls[k].type) :
          /\ calls[c].status = "resolved"
          /\ calls[c].gen # undefined
    /\ calls[Min(SavesBefore(k, calls[k].type))].keys = {}

\* C8: under calls issued one at a time, after new resources of one type
\* were saved with no delete in between, find(type) resolves with a list
\* that holds exactly these resources, each once, and find(type, id) with
\* the id of one of them resolves with it.
C8_FindReturnsSaved ==
    \A k \in DOMAIN calls :
        FindsAfterSaves(k) =>
            LET saves == SavesBefore(k, calls[k].type)
            IN /\ calls[k].status = "resolved"
               /\ calls[k].id = undefined =>
                     /\ calls[k].val.kind = "list"
                     /\ Range(calls[k].val.list) = {calls[c].res : c \in saves}
                     /\ Len(calls[k].val.list) = Cardinality(saves)
               /\ \A c \in saves :
                     calls[k].id = calls[c].gen =>
                         calls[k].val = ResourceVal(calls[c].res)

\* find(type) has listed two saved resources.
C8_Witness ==
    \E k \in DOMAIN calls :
        /\ FindsAfterSaves(k)
        /\ calls[k].id = undefined
        /\ Len(calls[k].val.list) = 2

\* Call c is a find that settles in this step on the loaded graph.
FindSettles(c) ==
    /\ calls[c].op = "find"
    /\ calls[c].pc = "load"
    /\ calls'[c].pc = "done"
    /\ promise = "fulfilled"

\* C9: on a loaded graph, find rejects with "unrecognized type" when the
\* graph has no entry for the type, and find(type, id) resolves with
\* undefined when the type's entry has no such id; the graph, the resources
\* and the file are as before, and no write is issued.
C9_FindMissing ==
    [][\A c \in DOMAIN calls :
          FindSettles(c) =>
              /\ calls[c].type \notin DOMAIN graph =>
                    /\ calls'[c].status = "rejected"
                    /\ calls'[c].err = "unrecognized type"
              /\ /\ calls[c].type \in DOMAIN graph
                 /\ calls[c].id # undefined
                 /\ calls[c].id \notin DOMAIN graph[calls[c].type]
                 => /\ calls'[c].status = "resolved"
                    /\ calls'[c].val = UndefinedVal
              /\ UNCHANGED <<graph, heap, file, writes>>]_vars

\* A find was rejected for its type, and another find got undefined for an
\* id its type does not hold.
C9_Witness ==
    /\ \E c \in DOMAIN calls :
          /\ calls[c].op = "find"
          /\ calls[c].err = "unrecognized type"
    /\ \E c \in DOMAIN calls :
          /\ calls[c].op = "find"
          /\ calls[c].id # undefined
          /\ calls[c].type \in DOMAIN graph
          /\ calls[c].status = "resolved"
          /\ calls[c].val = UndefinedVal

\* This step issues a delete call for a resource with a type and no id.
DeletesWithoutId ==
    /\ Len(calls') = Len(calls) + 1
    /\ calls'[Len(calls')].op = "delete"
    /\ heap'[calls'[Len(calls')].res].type # NoType
    /\ heap'[calls'[Len(calls')].res].id = undefined

\* C10: delete of a resource with a type and no id resolves at once with
\* undefined; the graph and the file are as before, no write is issued and
\* the load is not touched.
C10_DeleteWithoutIdNoOp ==
    [][DeletesWithoutId =>
          /\ calls'[Len(calls')].status = "resolved"
          /\ calls'[Len(calls')].val = UndefinedVal
          /\ UNCHANGED <<graph, file, writes, promise, nReads, microtasks, waiters>>]_vars

\* A delete of a resource without an id has resolved on a loaded graph that
\* holds resources.
C10_Witness ==
    /\ promise = "fulfilled"
    /\ graph # EmptyObj
    /\ \E c \in DOMAIN calls :
          /\ calls[c].op = "delete"
          /\ calls[c].type # NoType
          /\ calls[c].id = undefined
          /\ calls[c].status = "resolved"
          /\ calls[c].val = UndefinedVal

\* Call c is a delete that has awaited the load and, in this step, finds no
\* entry for the type of its resource, or no resource under its id.
DeletesMissing(c) ==
    /\ calls[c].op = "delete"
    /\ calls[c].pc = "load"
    /\ calls'[c].pc # "load"
    /\ promise = "fulfilled"
    /\ \/ heap[calls[c].res].type \notin DOMAIN graph
       \/ heap[calls[c].res].id \notin DOMAIN graph[heap[calls[c].res].type]

\* C11: a delete of a resource whose type has no entry in the graph, or
\* whose id is not a key of the type's entry, leaves the graph as it is and
\* issues no write.
C11_DeleteMissingNoWrite ==
    [][\A c \in DOMAIN calls :
          DeletesMissing(c) => graph' = graph /\ writes' = writes]_vars

\* C11 as amended: such a delete leaves the graph as it is; when the type has
\* no entry it issues no write and resolves with undefined, and when the
\* type has an entry without the id it writes the unchanged graph.
C11_DeleteMissingKeepsGraph ==
    [][\A c \in DOMAIN calls :
          DeletesMissing(c) =>
              /\ graph' = graph
              /\ heap' = heap
              /\ IF heap[calls[c].res].type \notin DOMAIN graph
                 THEN /\ writes' = writes
                      /\ calls'[c].status = "resolved"
                      /\ calls'[c].val = UndefinedVal
                 ELSE /\ writes' = (c :> Stringify(graph, heap)) @@ writes
                      /\ calls'[c].pc = "persist"]_vars

\* The only calls are two deletes on the graph as loaded from the file: the
\* first found no entry for its type, the second an entry without its id
\* and is writing the graph.
C11_Witness ==
    /\ Len(calls) = 2
    /\ \A c \in {1, 2} : calls[c].op = "delete" /\ calls[c].id # undefined
    /\ calls[1].status = "resolved"
    /\ calls[1].type \notin DOMAIN graph
    /\ calls[2].pc = "persist"
    /\ calls[2].type \in DOMAIN graph
    /\ calls[2].id \notin DOMAIN graph[calls[2].type]
    /\ file.exists
    /\ file.content = Stringify(graph, heap)
    /\ 2 \in DOMAIN writes

\* This step issues a save or delete call for a resource without a type.
CallsWithoutType ==
    /\ Len(calls') = Len(calls) + 1
    /\ calls'[Len(calls')].op \in {"save", "delete"}
    /\ heap'[calls'[Len(calls')].res].type = NoType

\* The resources referred to by graph g.
Stored(g) == {g[t][k] : <<t, k>> \in Entries(g)}

\* C12: save and delete of a resource without a type reject at once with
\* "resources must have a type"; the graph, the file, the writes in flight
\* and the load are as before, and the resource has the id it came with.
\* No resource without a type ever gets an id, an entry of the graph or a
\* place in it.
C12_MissingTypeRejects ==
    [][/\ CallsWithoutType =>
             LET c == Len(calls')
                 resource == calls'[c].res
             IN /\ calls'[c].status = "rejected"
                /\ calls'[c].err = "resources must have a type"
                /\ heap'[resource].id = calls'[c].id
                /\ \A o \in DOMAIN heap : heap'[o] = heap[o]
                /\ UNCHANGED <<graph, file, writes, promise, nReads, nCreates,
                               microtasks, waiters>>
       /\ NoType \notin DOMAIN graph'
       /\ \A o \in DOMAIN heap' :
             heap'[o].type = NoType =>
                 heap'[o].id = undefined /\ o \notin Stored(graph')]_vars

\* A save and a delete of a resource without a type were rejected.
C12_Witness ==
    \E c1, c2 \in DOMAIN calls :
        /\ calls[c1].op = "save"
        /\ calls[c2].op = "delete"
        /\ \A c \in {c1, c2} :
              /\ calls[c].type = NoType
              /\ calls[c].status = "rejected"
              /\ calls[c].err = "resources must have a type"

\* Graph g1 over resources h1 and graph g2 over resources h2 have the same
\* types, the same keys, and resources with the same fields under them.
SameGraph(g1, h1, g2, h2) ==
    /\ DOMAIN g1 = DOMAIN g2
    /\ \A t \in DOMAIN g1 :
          /\ DOMAIN g1[t] = DOMAIN g2[t]
          /\ \A k \in DOMAIN g1[t] : h1[g1[t][k]] = h2[g2[t][k]]

\* Every save and delete call has resolved, one of them by a write, and the
\* store is at rest.
AllPersisted ==
    /\ promise = "fulfilled"
    /\ Quiescent
    /\ AllSettled
    /\ \A c \in DOMAIN calls :
          calls[c].op \in {"save", "delete"} => calls[c].status = "resolved"
    /\ \E c \in DOMAIN calls : calls[c].val = GraphVal

\* C13: when every save and delete call has resolved, the graph a new
\* process would load from the data file is the same as the in-memory graph.
C13_RoundTrip ==
    AllPersisted =>
        /\ file.exists
        /\ SameGraph(ParseGraph(file.content, <<>>), ParseHeap(file.content, <<>>),
                     graph, heap)

\* Every resource in the graph has the key it is stored under as its id, and
\* the type of its entry as its type.
IdIsKey ==
    \A t \in DOMAIN graph : \A k \in DOMAIN graph[t] :
        heap[graph[t][k]].id = k /\ heap[graph[t][k]].type = t

\* Call c is a save that resolves in this step.
SaveResolves(c) ==
    /\ calls[c].op = "save"
    /\ calls[c].status = "pending"
    /\ calls'[c].status = "resolved"

\* C14: in every state a resource in the graph has the key it is stored
\* under as its id; and when a save call that no later call follows
\* resolves, it resolves with the graph, its resource has the id the call
\* has generated if it has generated one, and the graph holds the resource
\* under the id the resource has.
C14_IdIsKeyAndSaveResult ==
    [][/\ IdIsKey'
       /\ \A c \in DOMAIN calls :
             SaveResolves(c) /\ c = Len(calls) =>
                 LET resource == calls[c].res
                     type == heap'[resource].type
                     id == heap'[resource].id
                 IN /\ calls'[c].val = GraphVal
                    /\ calls[c].gen # undefined => id = calls[c].gen
                    /\ type \in DOMAIN graph'
                    /\ id \in DOMAIN graph'[type]
                    /\ graph'[type][id] = resource]_vars

\* Among the calls cs, c is a save of the type that has created the type's
\* entry and not yet stored its resource.
SaveInProgress(cs, c, type) ==
    /\ cs[c].op = "save"
    /\ cs[c].type = type
    /\ cs[c].pc \in {"genLoad", "genRet"}

\* Among the calls cs, c is a save of the type that has come to the graph.
SaveReached(cs, c, type) ==
    /\ cs[c].op = "save"
    /\ cs[c].type = type
    /\ \/ cs[c].pc \in {"genLoad", "genRet", "persist"}
       \/ cs[c].val = GraphVal
       \/ cs[c].status = "rejected" /\ cs[c].err \in WriteErrors \ {"none"}

\* Among the calls cs, c is a delete of the type that has run on the type's
\* entry and issued its write.
DeleteReached(cs, c, type) ==
    /\ cs[c].op = "delete"
    /\ cs[c].type = type
    /\ \/ cs[c].pc = "persist"
       \/ cs[c].val = GraphVal
       \/ cs[c].status = "rejected" /\ cs[c].err \in WriteErrors \ {"none"}

\* The store has started on no data file, so on an empty graph.
FirstRun == nCreates = 1

\* C15: on a first run, when no call is in flight no entry of the graph is
\* empty, and no find(type) has resolved with an empty list.
C15_NoEmptyPartition ==
    FirstRun =>
        /\ AllSettled => \A t \in DOMAIN graph : graph[t] # EmptyObj
        /\ \A c \in DOMAIN calls :
              calls[c].op = "find" /\ calls[c].status = "resolved" =>
                  calls[c].val # ListVal(<<>>)

\* C15 as amended: on a first run, the graph has an entry for a type only
\* after a save of that type has come to it; an entry is empty only while a
\* save of the type is between creating it and storing its resource, or
\* after a delete of the type has run on it; and find
\* resolves with an empty list only then.
C15_EmptyOnlyBySaveOrDelete ==
    [][FirstRun' /\ promise' # "rejected" =>
          /\ \A t \in DOMAIN graph' :
                /\ \E c \in DOMAIN calls' : SaveReached(calls', c, t)
                /\ graph'[t] = EmptyObj =>
                      \E c \in DOMAIN calls' :
                          \/ SaveInProgress(calls', c, t)
                          \/ DeleteReached(calls', c, t)
          /\ \A c \in DOMAIN calls :
                FindSettles(c) /\ calls'[c].val = ListVal(<<>>) =>
                    /\ calls[c].type \in DOMAIN graph
                    /\ graph[calls[c].type] = EmptyObj
                    /\ \E c2 \in DOMAIN calls :
                          \/ SaveInProgress(calls, c2, calls[c].type)
                          \/ DeleteReached(calls, c2, calls[c].type)]_vars

\* On a first run a resource was saved and deleted, the entry of its type
\* is empty, and a find of the type has resolved with an empty list.
C15_Witness ==
    /\ FirstRun
    /\ AllSettled
    /\ \E t \in DOMAIN graph : graph[t] = EmptyObj
    /\ \E c \in DOMAIN calls :
          /\ calls[c].op = "find"
          /\ calls[c].status = "resolved"
          /\ calls[c].val = ListVal(<<>>)
          /\ \E c2 \in DOMAIN calls : c2 < c /\ DeleteReached(calls, c2, calls[c].type)

\* Call c is a save of a resource with a type, and every other call is a find.
OnlySave(c) ==
    /\ calls[c].op = "save"
    /\ calls[c].type # NoType
    /\ \A c2 \in DOMAIN calls : c2 # c => calls[c2].op = "find"

\* No save or delete call has come to the graph.
NothingStored ==
    \A c \in DOMAIN calls :
        \/ calls[c].op = "find"
        \/ calls[c].pc = "load"
        \/ calls[c].type = NoType
        \/ calls[c].op = "delete" /\ calls[c].id = undefined

\* C16: a data file that is not found is no error of the load.  On a first
\* run the load writes the empty graph and is pending until that write is
\* over; it has resolved when the file exists and only then, and graph and
\* file are empty until a save comes; and a save that is the only one, once settled, has
\* resolved with the graph unless its write failed, and then the file holds
\* its resource under the id it was given and nothing else.
C16_FirstRun ==
    /\ loadErr # "ENOENT"
    /\ promise = "fulfilled" => file.exists
    /\ FirstRun =>
          /\ promise # "rejected"
          /\ LoadDB \in DOMAIN writes =>
                writes[LoadDB] = EmptyObj /\ promise = "pending"
          /\ file.exists => promise = "fulfilled"
          /\ promise = "fulfilled" /\ NothingStored =>
                graph = EmptyObj /\ file.content = EmptyObj
          /\ \A c \in DOMAIN calls :
                OnlySave(c) /\ calls[c].pc = "done" =>
                    /\ calls[c].status = "rejected" => calls[c].err \in WriteErrors \ {"none"}
                    /\ calls[c].status = "resolved" =>
                          LET resource == calls[c].res
                          IN /\ calls[c].val = GraphVal
                             /\ heap[resource].id # undefined
                             /\ file.content =
                                   (calls[c].type :> (heap[resource].id :> heap[resource]))
                             /\ Stringify(graph, heap) = file.content

\* On a first run the only save has resolved and a find has listed its
\* resource.
C16_Witness ==
    /\ FirstRun
    /\ \E c \in DOMAIN calls :
          /\ OnlySave(c)
          /\ calls[c].status = "resolved"
          /\ DOMAIN file.content = {calls[c].type}
    /\ \E c \in DOMAIN calls :
          /\ calls[c].op = "find"
          /\ calls[c].val.kind = "list"
          /\ Len(calls[c].val.list) = 1

\* Call c is a save that has stored its resource in the loaded graph.
SaveStored(c) ==
    /\ calls[c].op = "save"
    /\ promise = "fulfilled"
    /\ calls[c].pc = "persist" \/ calls[c].status # "pending"

\* Call c is a save whose resource came with an id that was no key of the
\* entry of its type.
SavedUnknownId(c) ==
    /\ SaveStored(c)
    /\ calls[c].id # undefined
    /\ calls[c].id \notin calls[c].keys

\* C17: under calls issued one at a time, a save of a resource that comes
\* with an id that is no key of its type's entry generates an id, the
\* largest key of the entry plus one (1 for an empty entry), whatever the
\* id it came with; and as long as no other call follows, the resource has
\* that id and the graph holds it under that id and not under the id it
\* came with.
C17_UnknownIdIsNew ==
    \A c \in DOMAIN calls :
        SavedUnknownId(c) =>
            /\ calls[c].gen = Max({0} \cup calls[c].keys) + 1
            /\ c = Len(calls) =>
                  LET resource == calls[c].res
                      entry == graph[calls[c].type]
                  IN /\ heap[resource].id = calls[c].gen
                     /\ calls[c].gen \in DOMAIN entry
                     /\ entry[calls[c].gen] = resource
                     /\ DOMAIN entry = calls[c].keys \cup {calls[c].gen}

\* A resource that came with an id that was no key was stored under another
\* id, in an entry that held a resource.
C17_Witness ==
    \E c \in DOMAIN calls :
        /\ SavedUnknownId(c)
        /\ calls[c].status = "resolved"
        /\ calls[c].keys # {}
        /\ calls[c].gen # calls[c].id
        /\ heap[calls[c].res].id = calls[c].gen

\* Among the calls cs, c has awaited the load and is settled.
SettledOnLoad(cs, c) ==
    /\ cs[c].pc = "done"
    /\ \/ cs[c].op = "find"
       \/ cs[c].op = "save" /\ cs[c].type # NoType
       \/ cs[c].op = "delete" /\ cs[c].type # NoType /\ cs[c].id # undefined

\* C18: once the load is rejected it stays rejected with the same error;
\* the file is read no more, no write is issued or in flight, graph and file
\* stay as they are, and every find, save of a resource with a type and
\* delete of a resource with a type and an id that settles is rejected with
\* the error of the load.
C18_LoadFailureIsPermanent ==
    [][promise = "rejected" =>
          /\ promise' = "rejected"
          /\ loadErr' = loadErr
          /\ loadErr \in ReadErrors \ {"none", "ENOENT"}
          /\ writes = EmptyObj
          /\ UNCHANGED <<graph, file, writes, nReads, nCreates>>
          /\ \A c \in DOMAIN calls' :
                SettledOnLoad(calls', c) =>
                    /\ calls'[c].status = "rejected"
                    /\ calls'[c].err = loadErr]_vars

\* The load was rejected after one read, and a save and a delete were
\* rejected with its error.
C18_Witness ==
    /\ promise = "rejected"
    /\ nReads = 1
    /\ \A c \in DOMAIN calls :
          SettledOnLoad(calls, c) /\ calls[c].err = loadErr
    /\ \E c \in DOMAIN calls : calls[c].op = "save"
    /\ \E c \in DOMAIN calls : calls[c].op = "delete"

\* Call c is a save or delete that was rejected because its write failed.
FailedWrite(c) ==
    /\ calls[c].op \in {"save", "delete"}
    /\ calls[c].status = "rejected"
    /\ promise = "fulfilled"
    /\ calls[c].err \in WriteErrors \ {"none"}

\* The graph is as call c has left it: the resource of a save is in it
\* under its id, the one the save has generated if it has generated one,
\* and the id of a delete is no key of the entry of its type.
Mutated(c) ==
    LET resource == calls[c].res
        type == calls[c].type
    IN /\ type \in DOMAIN graph
       /\ IF calls[c].op = "save"
          THEN /\ heap[resource].id \in DOMAIN graph[type]
               /\ graph[type][heap[resource].id] = resource
               /\ calls[c].gen # undefined => heap[resource].id = calls[c].gen
          ELSE calls[c].id \notin DOMAIN graph[type]

\* Call c has changed a graph that the file held: the calls before it have
\* resolved, and c is a save that has generated an id or a delete of an id
\* the file holds.
ChangedSyncedGraph(c) ==
    /\ \A c2 \in 1..(c - 1) :
          calls[c2].op \in {"save", "delete"} => calls[c2].status = "resolved"
    /\ \/ calls[c].op = "save" /\ calls[c].gen # undefined
       \/ /\ calls[c].op = "delete"
          /\ calls[c].type \in DOMAIN file.content
          /\ calls[c].id \in DOMAIN file.content[calls[c].type]

\* What a find of the type of call c returns, when it is call k.
FindSeesMutation(c, k) ==
    LET resource == calls[c].res
    IN IF calls[c].op = "save"
       THEN /\ calls[k].id = undefined =>
                  calls[k].val.kind = "list" /\ resource \in Range(calls[k].val.list)
            /\ calls[k].id = heap[resource].id => calls[k].val = ResourceVal(resource)
       ELSE /\ calls[k].id = undefined =>
                  calls[k].val.kind = "list" /\ resource \notin Range(calls[k].val.list)
            /\ calls[k].id = calls[c].id => calls[k].val = UndefinedVal

\* C19: under calls issued one at a time, when a save or delete was rejected
\* because its write failed and only finds have followed, the graph is as
\* the call has left it and the resource of a save has its id; a find of the
\* type that has settled has resolved with what the graph holds; and the
\* file, when it held the graph before the call, does not hold it now.  When
\* a later save or delete has resolved with the graph and is the last
\* call, the file holds the graph again.
C19_NoRollback ==
    \A c \in DOMAIN calls :
        /\ /\ FailedWrite(c)
           /\ c < Len(calls)
           /\ calls[Len(calls)].status = "resolved"
           /\ calls[Len(calls)].val = GraphVal
           => file.exists /\ file.content = Stringify(graph, heap)
        /\ FailedWrite(c) /\ (\A k \in (c + 1)..Len(calls) : calls[k].op = "find") =>
            /\ Mutated(c)
            /\ \A k \in (c + 1)..Len(calls) :
                  calls[k].pc = "done" /\ calls[k].type = calls[c].type =>
                      calls[k].status = "resolved" /\ FindSeesMutation(c, k)
            /\ ChangedSyncedGraph(c) =>
                  file.exists /\ file.content # Stringify(graph, heap)

\* The write of a save or delete that has changed a graph the file held has
\* failed, and a find of its type that followed has resolved.
C19_Witness ==
    \E c \in DOMAIN calls :
        /\ FailedWrite(c)
        /\ ChangedSyncedGraph(c)
        /\ c < Len(calls)
        /\ calls[Len(calls)].op = "find"
        /\ calls[Len(calls)].status = "resolved"
        /\ calls[Len(calls)].type = calls[c].type
        /\ calls[Len(calls)].id = undefined

\* The number of time entries es holds for the tasks with the id, over the
\* resources h.
EntriesOf(es, h, id) == Cardinality({i \in DOMAIN es : h[es[i].task].id = id})

\* The number of times the task with the id was activated, in st.
StartsOf(st, id) == Cardinality({i \in DOMAIN st : st[i] = id})

\* The ids of the resources h.
IdsOf(h) == {h[o].id : o \in DOMAIN h}

\* This step invokes startStopTask while no task is active.
StartsWhenIdle ==
    /\ Len(procs') = Len(procs) + 1
    /\ procs'[Len(procs')].op = "startStopTask"
    /\ ongoingTaskID = null

\* This step is the last of a startStopTask that has found a task active.
StopsOngoing(p) ==
    /\ procs[p].op = "startStopTask"
    /\ procs[p].pc = "set"
    /\ procs'[p].pc = "done"

\* C20: startStopTask(id) invoked while no task is active pushes no time
\* entry, saves nothing and sets ongoingTaskID to id; invoked while task T is
\* active it has, when it is over, pushed a time entry to T as its last
\* entry, saved T, and set ongoingTaskID to null if id is T and to id
\* otherwise; and whenever no startStopTask is in the middle of a step, a
\* task has one time entry for every time it was activated, the time it is
\* active now left aside.
C20_OneEntryPerPeriod ==
    [][/\ StartsWhenIdle =>
             /\ entries' = entries
             /\ calls' = calls
             /\ ongoingTaskID' = procs'[Len(procs')].id
       /\ \A p \in DOMAIN procs :
             StopsOngoing(p) =>
                 /\ heap[entries[Len(entries)].task].id = procs[p].seen
                 /\ calls[Len(calls)].op = "save"
                 /\ calls[Len(calls)].res = entries[Len(entries)].task
                 /\ ongoingTaskID' = IF procs[p].id = procs[p].seen THEN null
                                     ELSE procs[p].id
       /\ ~InStep' =>
             \A id \in IdsOf(heap') :
                 EntriesOf(entries', heap', id) =
                     StartsOf(started', id) - (IF ongoingTaskID' = id THEN 1 ELSE 0)]_vars

\* Every method was invoked as an event of its own, after the ones before it
\* were over: the clicks of a user.
OneAtATime == \A p \in DOMAIN procs : procs[p].alone

\* No call of the store was rejected: the disk has not failed.
NoCallRejected == \A c \in DOMAIN calls : calls[c].status # "rejected"

\* The store has a task with the id.
TaskInStore(id) == "tasks" \in DOMAIN graph /\ id \in DOMAIN graph["tasks"]

\* C21: when createTask, deleteTask and startStopTask were invoked one at a
\* time and no call of the store was rejected, ongoingTaskID is, once the
\* methods are over, null or the id of a task in the store, and no
\* startStopTask has thrown.
C21_OngoingTaskInStore ==
    (OneAtATime /\ NoCallRejected) =>
        /\ MethodsOver => (ongoingTaskID = null \/ TaskInStore(ongoingTaskID))
        /\ \A p \in DOMAIN procs :
              procs[p].op = "startStopTask" => procs[p].pc # "thrown"

====
